---- MODULE Spec2Model ----
(***************************************************************************)
(* Model of supabase-direct-migrate (src/apply_migrations.go).             *)
(*                                                                         *)
(* Strings are sequences of one-character strings.  The database is the    *)
(* durable ledger table plus the durable effects of migration statements;  *)
(* each running instance of the tool is a process walking through main().  *)
(***************************************************************************)
EXTENDS Integers, Sequences, FiniteSets, TLC

VARIABLES
    dir,          \* the migrations directory: a set of entries
    fleet,        \* the instances of the tool that are in use
    schemaExists, \* schema supabase_migrations exists
    tableExists,  \* table schema_migrations exists
    ledger,       \* durable ledger rows: version -> row
    effects,      \* durable statement effects: version -> statements applied
    pc,           \* per instance: position in main()
    applied,      \* per instance: the map built at lines 179-187
    local,        \* per instance: localMigrations (line 190)
    idx,          \* per instance: index of the loop at line 198
    tx,           \* per instance: the open transaction, or NoTx
    readVersions, \* per instance: the versions in the ledger when it was read
    committed,    \* per instance: the versions its last run made durable
    err,          \* per instance: what ended its last run
    fname,        \* loader check: a file name
    raw,          \* loader check: a file content
    list,         \* array check: a list of statements
    out           \* loader and array checks: the result of the operation

vars == <<dir, fleet, schemaExists, tableExists, ledger, effects, pc, applied,
          local, idx, tx, readVersions, committed, err, fname, raw, list, out>>

dbVars == <<schemaExists, tableExists, ledger, effects>>
procVars == <<pc, applied, local, idx, tx, readVersions, committed, err>>
runVars == <<dir, fleet, schemaExists, tableExists, ledger, effects, pc, applied,
             local, idx, tx, readVersions, committed, err>>
loaderVars == <<fname, raw, list, out>>

----------------------------------------------------------------------------
(* Bounds *)

MaxFiles == 3       \* files in the migrations directory, one instance
MaxConcFiles == 2   \* files in the migrations directory, two instances
MaxLiveFiles == 1   \* files in the migrations directory, termination check
MaxLen == 6         \* length of a file content in the split check
MaxStem == 5        \* length of a file name before ".sql" in the name check
MaxElemLen == 2     \* length of a statement in the array check
MaxArr == 2         \* statements in a list in the array check

----------------------------------------------------------------------------
(* Strings *)

\* byte values of the characters used, for Go's byte-wise string comparison
Ord(c) ==
    CASE c = "\n" -> 10
      [] c = " " -> 32
      [] c = "-" -> 45
      [] c = "." -> 46
      [] c = "0" -> 48
      [] c = "1" -> 49
      [] c = "9" -> 57
      [] c = "_" -> 95
      [] c = "a" -> 97
      [] c = "b" -> 98
      [] c = "c" -> 99
      [] c = "l" -> 108
      [] c = "m" -> 109
      [] c = "q" -> 113
      [] c = "s" -> 115
      [] OTHER -> 120

\* numeric order of decimal strings without leading zeros: length first
StrLessNumeric(a, b) ==
    \/ Len(a) < Len(b)
    \/ /\ Len(a) = Len(b)
       /\ \E i \in 1..Len(a) :
            /\ \A j \in 1..(i-1) : a[j] = b[j]
            /\ Ord(a[i]) < Ord(b[i])

\* Go's < on strings: lexical, byte by byte, a proper prefix sorts first
StrLess(a, b) ==
    \/ \E i \in 1..Len(a) :
         /\ i <= Len(b)
         /\ \A j \in 1..(i-1) : a[j] = b[j]
         /\ Ord(a[i]) < Ord(b[i])
    \/ /\ Len(a) < Len(b)
       /\ \A j \in 1..Len(a) : a[j] = b[j]

\* strings.HasSuffix
HasSuffix(s, suf) ==
    /\ Len(s) >= Len(suf)
    /\ SubSeq(s, Len(s) - Len(suf) + 1, Len(s)) = suf

\* index of the first occurrence of sub in s, 0 when there is none
IndexOf(s, sub) ==
    LET hits == {i \in 1..(Len(s) - Len(sub) + 1) :
                    SubSeq(s, i, i + Len(sub) - 1) = sub}
    IN IF hits = {} THEN 0
       ELSE CHOOSE i \in hits : \A j \in hits : i <= j

\* strings.SplitN(s, sep, 2): cut at the first sep only
SplitN2(s, sep) ==
    LET i == IndexOf(s, sep)
    IN IF i = 0 THEN <<s>>
       ELSE <<SubSeq(s, 1, i - 1), SubSeq(s, i + Len(sep), Len(s))>>

\* strings.Split(s, sep): cut at every occurrence, leftmost first
RECURSIVE Split(_, _)
Split(s, sep) ==
    LET i == IndexOf(s, sep)
    IN IF i = 0 THEN <<s>>
       ELSE <<SubSeq(s, 1, i - 1)>>
            \o Split(SubSeq(s, i + Len(sep), Len(s)), sep)

IsSpace(c) == c \in {" ", "\n"}

\* strings.TrimSpace
TrimSpace(s) ==
    LET keep == {i \in 1..Len(s) : ~IsSpace(s[i])}
    IN IF keep = {} THEN <<>>
       ELSE LET lo == CHOOSE i \in keep : \A j \in keep : i <= j
                hi == CHOOSE i \in keep : \A j \in keep : i >= j
            IN SubSeq(s, lo, hi)

\* strings.Join
RECURSIVE Join(_, _)
Join(ss, sep) ==
    IF Len(ss) = 0 THEN <<>>
    ELSE IF Len(ss) = 1 THEN ss[1]
    ELSE ss[1] \o sep \o Join(Tail(ss), sep)

\* all strings over alphabet A of length at most n
RECURSIVE StringsUpTo(_, _)
StringsUpTo(A, n) ==
    IF n = 0 THEN {<<>>}
    ELSE LET shorter == StringsUpTo(A, n - 1)
         IN shorter \cup {Append(s, c) : s \in shorter, c \in A}

----------------------------------------------------------------------------
(* The loader: loadLocalMigrations, lines 39-93 *)

\* a delimiter that can overlap itself, as "--" would
MarkerOverlapping == <<"-", "-">>

\* the statement delimiter of line 70, "-- statement-breakpoint", shortened
\* to two characters; like the literal it cannot overlap itself
Marker == <<"-", "b">>

Separator == <<"_">>

SqlExt == <<".", "s", "q", "l">>

\* lines 69-76 without the test of line 73: empty chunks are kept
StatementsKeepEmpty(content) ==
    LET chunks == Split(content, Marker)
    IN [i \in 1..Len(chunks) |-> TrimSpace(chunks[i])]

\* lines 69-76: split at every occurrence of the marker, trim each chunk,
\* drop the chunks that are empty after trimming
Statements(content) ==
    LET chunks == Split(content, Marker)
        trimmed == [i \in 1..Len(chunks) |-> TrimSpace(chunks[i])]
    IN SelectSeq(trimmed, LAMBDA stmt : stmt # <<>>)

\* SHA-256 is modelled as an injective tagging of its input
computeHash(s) == <<"sha256", s>>

\* line 61: a file name is rejected only when it has no separator
Malformed(name) == Len(SplitN2(name, Separator)) # 2

\* lines 60-66 cutting at the last separator instead of the first
ParseNameLast(name) ==
    LET seps == {i \in 1..Len(name) : name[i] = "_"}
        i == CHOOSE k \in seps : \A j \in seps : k >= j
    IN [Version |-> SubSeq(name, 1, i - 1),
        Name |-> SubSeq(name, i + 1, Len(name))]

\* lines 60-66: version is the part before the first separator, name is
\* everything after it
ParseName(name) ==
    LET parts == SplitN2(name, Separator)
    IN [Version |-> parts[1], Name |-> parts[2]]

\* lines 78-84 hashing the rejoined statements instead of the raw text
MakeMigrationHashJoined(name, content) ==
    [Version |-> ParseName(name).Version,
     Name |-> ParseName(name).Name,
     Raw |-> content,
     Statements |-> Statements(content),
     Hash |-> computeHash(Join(Statements(content), Marker))]

\* lines 78-84: the Migration built from one file
MakeMigration(name, content) ==
    [Version |-> ParseName(name).Version,
     Name |-> ParseName(name).Name,
     Raw |-> content,
     Statements |-> Statements(content),
     Hash |-> computeHash(content)]

----------------------------------------------------------------------------
(* The ledger array: formatPostgresArray, lines 256-267, and the text[]   *)
(* input conversion the INSERT of line 230 applies to its result          *)

Quote == "\""
Backslash == "\\"

\* strings.ReplaceAll for a one-character pattern
ReplaceAll(s, old, new) ==
    LET RECURSIVE go(_)
        go(i) == IF i > Len(s) THEN <<>>
                 ELSE (IF s[i] = old THEN new ELSE <<s[i]>>) \o go(i + 1)
    IN go(1)

\* lines 262-264 without the escaping of backslashes of line 262
EscapeElementQuotesOnly(v) ==
    <<Quote>> \o ReplaceAll(v, Quote, <<Backslash, Quote>>) \o <<Quote>>

\* lines 262-264: escape backslashes, then quotes, then wrap in quotes
EscapeElement(v) ==
    <<Quote>>
    \o ReplaceAll(ReplaceAll(v, Backslash, <<Backslash, Backslash>>),
                  Quote, <<Backslash, Quote>>)
    \o <<Quote>>

\* lines 256-267
formatPostgresArray(arr) ==
    IF Len(arr) = 0 THEN <<"{", "}">>
    ELSE <<"{">>
         \o Join([i \in 1..Len(arr) |-> EscapeElement(arr[i])], <<",">>)
         \o <<"}">>

\* PostgreSQL's reading of a one-dimensional text[] literal: elements are
\* separated by commas; inside double quotes a backslash takes the next
\* character literally; outside quotes an element runs to the next comma
\* or closing brace.  Malformed literals are read as far as they go.
ParseTextArray(lit) ==
    LET RECURSIVE scan(_, _, _, _, _)
        \* i: position, inq: inside quotes, has: an element is in progress
        scan(i, inq, has, cur, acc) ==
            IF i > Len(lit) THEN acc
            ELSE LET c == lit[i]
                 IN IF inq
                    THEN IF c = Backslash /\ i < Len(lit)
                         THEN scan(i + 2, TRUE, TRUE, Append(cur, lit[i + 1]), acc)
                         ELSE IF c = Quote
                         THEN scan(i + 1, FALSE, TRUE, cur, acc)
                         ELSE scan(i + 1, TRUE, TRUE, Append(cur, c), acc)
                    ELSE IF c = Quote
                         THEN scan(i + 1, TRUE, TRUE, cur, acc)
                         ELSE IF c = ","
                         THEN scan(i + 1, FALSE, FALSE, <<>>, Append(acc, cur))
                         ELSE IF c = "}"
                         THEN (IF has THEN Append(acc, cur) ELSE acc)
                         ELSE IF c = "{"
                         THEN scan(i + 1, FALSE, FALSE, <<>>, acc)
                         ELSE scan(i + 1, FALSE, TRUE, Append(cur, c), acc)
    IN scan(1, FALSE, FALSE, <<>>, <<>>)

\* the fixed origin marker of line 236
CreatedBy == "supabase-direct-migrate"

\* SQL NULL
Null == "NULL"

\* lines 224-237: the row the INSERT writes for migration m
LedgerRow(m) ==
    [version |-> m.Version,
     name |-> m.Name,
     hash |-> m.Hash,
     statements |-> ParseTextArray(formatPostgresArray(m.Statements)),
     created_by |-> CreatedBy,
     idempotency_key |-> Null]

----------------------------------------------------------------------------
(* The migrations directory *)

File(name, isDir, content) == [name |-> name, isDir |-> isDir, content |-> content]

\* the content a file has after the operator rewrites it
Rewritten == <<"c", " ", "-", "b", "a">>

\* the directory entries a directory is drawn from
Catalogue ==
    { File(<<"1", "_", "a">> \o SqlExt, FALSE, <<"a", "\n", "-", "b", "\n", "c">>),
      File(<<"1", "0", "_", "b", "_", "c">> \o SqlExt, FALSE, <<"a", Quote, Backslash>>),
      File(<<"9", "_", "c">> \o SqlExt, FALSE, <<" ", "\n">>),
      File(<<"1", "_", "b">> \o SqlExt, FALSE, <<"c">>),
      File(<<"a">> \o SqlExt, FALSE, <<"a">>),
      File(<<"_", "a">> \o SqlExt, FALSE, <<"a">>),
      File(<<"0", "_", "a", ".", "m">>, FALSE, <<"a">>),
      File(<<"0", "_", "b">> \o SqlExt, TRUE, <<>>) }

Directories == {d \in SUBSET Catalogue : Cardinality(d) <= MaxFiles}

\* the well-formed migration files with a version and a statement
ConcCatalogue ==
    {f \in Catalogue :
        /\ ~f.isDir
        /\ HasSuffix(f.name, SqlExt)
        /\ IndexOf(f.name, <<"_">>) > 1
        /\ Statements(f.content) # <<>>}

ConcDirectories == {d \in SUBSET ConcCatalogue : Cardinality(d) <= MaxConcFiles}

\* lines 47-50: the entries the loader reads
Candidates(d) == {f \in d : ~f.isDir /\ HasSuffix(f.name, SqlExt)}

\* all orders of the elements of a finite set
Perms(S) ==
    {s \in [1..Cardinality(S) -> S] : \A x \in S : \E i \in DOMAIN s : s[i] = x}

\* os.ReadDir returns the entries sorted by file name
ReadDirOrder(S) ==
    CHOOSE s \in Perms(S) :
        \A i, j \in DOMAIN s : i < j => StrLess(s[i].name, s[j].name)

\* lines 88-90 left out: the migrations stay in directory order
SortUnsorted(ms) == {ms}

\* lines 88-90: sort.Slice by Version; it is not stable, so migrations of
\* equal version may come out in either order
SortByVersion(ms) ==
    {s \in Perms({ms[i] : i \in DOMAIN ms}) :
        \A i, j \in DOMAIN s :
            i < j => ~StrLess(s[j].Version, s[i].Version)}

\* lines 60-63: some candidate has no separator in its name
LoadFails(d) == \E f \in Candidates(d) : Malformed(f.name)

\* lines 39-93: the possible results of a successful loadLocalMigrations
LoadResults(d) ==
    LET files == ReadDirOrder(Candidates(d))
        ms == [i \in DOMAIN files |->
                  MakeMigration(files[i].name, files[i].content)]
    IN SortByVersion(ms)

----------------------------------------------------------------------------
(* The database *)

Instances == {1, 2}

NoTx == [open |-> FALSE, effects |-> <<>>, rows |-> <<>>]

Range(s) == {s[i] : i \in DOMAIN s}

\* versions that have a row in ledger table led
Versions(led) == {led[i].version : i \in DOMAIN led}

\* durable statement effects recorded for version v
EffectsOf(eff, v) == IF v \in DOMAIN eff THEN eff[v] ELSE <<>>

\* the effects of the statements stmts of version v become durable
AddEffects(eff, v, stmts) ==
    [w \in DOMAIN eff \cup {v} |->
        IF w = v THEN EffectsOf(eff, v) \o stmts ELSE eff[w]]

\* a row written by another tool, for a version with no local file
ForeignRow ==
    [version |-> <<"0">>, name |-> <<"a">>, hash |-> computeHash(<<"a">>),
     statements |-> << <<"a">> >>, created_by |-> "supabase-cli",
     idempotency_key |-> Null]

InitDb ==
    \/ /\ schemaExists = FALSE
       /\ tableExists = FALSE
       /\ ledger = <<>>
       /\ effects = <<>>
    \/ /\ schemaExists = TRUE
       /\ tableExists = TRUE
       /\ \/ ledger = <<>> /\ effects = <<>>
          \/ /\ ledger = <<ForeignRow>>
             /\ effects = AddEffects(<<>>, ForeignRow.version, ForeignRow.statements)

InitProcs ==
    /\ pc = [p \in Instances |-> "idle"]
    /\ applied = [p \in Instances |-> <<>>]
    /\ local = [p \in Instances |-> <<>>]
    /\ idx = [p \in Instances |-> 1]
    /\ tx = [p \in Instances |-> NoTx]
    /\ readVersions = [p \in Instances |-> {}]
    /\ committed = [p \in Instances |-> <<>>]
    /\ err = [p \in Instances |-> "none"]

NoResult == [done |-> FALSE]

InitLoaderIdle ==
    /\ fname = <<"1", "_", "a">> \o SqlExt
    /\ raw = <<"a">>
    /\ list = <<>>
    /\ out = NoResult

\* one instance, run any number of times
Init ==
    /\ dir \in Directories
    /\ fleet = {1}
    /\ InitDb
    /\ InitProcs
    /\ InitLoaderIdle

\* two instances, each run any number of times, on a fresh database
InitConcurrent ==
    /\ dir \in ConcDirectories
    /\ fleet = Instances
    /\ schemaExists = FALSE
    /\ tableExists = FALSE
    /\ ledger = <<>>
    /\ effects = <<>>
    /\ InitProcs
    /\ InitLoaderIdle

\* two instances on a fresh database, for the termination of runs
InitLive ==
    /\ InitConcurrent
    /\ Cardinality(dir) <= MaxLiveFiles

InitNoRun ==
    /\ dir = {}
    /\ fleet = {}
    /\ schemaExists = FALSE
    /\ tableExists = FALSE
    /\ ledger = <<>>
    /\ effects = <<>>
    /\ InitProcs

\* the file names of the file-name check
FileNames == {stem \o SqlExt : stem \in StringsUpTo({"1", "_", "a"}, MaxStem)}

\* the file contents of the split check
FileContents == StringsUpTo({"a", " ", "\n", "-", "b"}, MaxLen)

InitName ==
    /\ InitNoRun
    /\ fname \in FileNames
    /\ raw = <<"a">>
    /\ list = <<>>
    /\ out = NoResult

InitSplit ==
    /\ InitNoRun
    /\ fname = <<"1", "_", "a">> \o SqlExt
    /\ raw \in FileContents
    /\ list = <<>>
    /\ out = NoResult

\* loadLocalMigrations on a directory holding the one file fname
LoadFile ==
    /\ ~out.done
    /\ LET d == {File(fname, FALSE, raw)}
       IN out' = IF LoadFails(d)
                 THEN [done |-> TRUE, failed |-> TRUE, ms |-> <<>>]
                 ELSE [done |-> TRUE, failed |-> FALSE,
                       ms |-> CHOOSE ms \in LoadResults(d) : TRUE]
    /\ UNCHANGED <<runVars, fname, raw, list>>

\* the statements of the array check
ArrayElements ==
    StringsUpTo({Quote, Backslash, ","}, MaxElemLen)
        \cup {<<"{">>, <<"}">>, <<"{", "}">>}

\* the statement lists of the array check
ArrayInputs == UNION {[1..n -> ArrayElements] : n \in 0..MaxArr}

InitArray ==
    /\ InitNoRun
    /\ fname = <<"1", "_", "a">> \o SqlExt
    /\ raw = <<"a">>
    /\ list \in ArrayInputs
    /\ out = NoResult

\* lines 224, 230: the list is formatted, and the database reads the
\* literal back as a text[]
StoreArray ==
    /\ ~out.done
    /\ out' = [done |-> TRUE,
               lit |-> formatPostgresArray(list),
               stored |-> ParseTextArray(formatPostgresArray(list))]
    /\ UNCHANGED <<runVars, fname, raw, list>>

\* loadLocalMigrations on the file whose content is the statements of the
\* file just loaded, joined with the marker
ReloadJoined ==
    /\ out.done
    /\ ~out.failed
    /\ DOMAIN out = {"done", "failed", "ms"}
    /\ LET joined == Join(out.ms[1].Statements, Marker)
           d == {File(fname, FALSE, joined)}
       IN out' = [done |-> TRUE, failed |-> FALSE, ms |-> out.ms,
                  joined |-> joined,
                  again |-> CHOOSE ms \in LoadResults(d) : TRUE]
    /\ UNCHANGED <<runVars, fname, raw, list>>

----------------------------------------------------------------------------
(* main, lines 122-254, one instance p *)

\* the process ends with the completion line ("none") or a panic; its
\* memory is gone and its connection is closed
Exit(p, kind) ==
    /\ pc' = [pc EXCEPT ![p] = IF kind = "none" THEN "done" ELSE "fatal"]
    /\ applied' = [applied EXCEPT ![p] = <<>>]
    /\ local' = [local EXCEPT ![p] = <<>>]
    /\ idx' = [idx EXCEPT ![p] = 1]
    /\ readVersions' = [readVersions EXCEPT ![p] = {}]
    /\ tx' = [tx EXCEPT ![p] = NoTx]
    /\ err' = [err EXCEPT ![p] = kind]

\* the migration the loop of line 198 is at
Cur(p) == local[p][idx[p]]

\* line 199 comparing the stored hash as well
IsAppliedSameHash(m, appl) == m.Version \in DOMAIN appl /\ appl[m.Version] = m.Hash

\* line 199: a migration counts as applied when its version is a key of the map
IsApplied(m, appl) == m.Version \in DOMAIN appl

\* lines 179-187: the map version -> hash built from the rows read
AppliedMap(rows) ==
    [v \in Versions(rows) |-> (CHOOSE r \in Range(rows) : r.version = v).hash]

\* the primary key of line 158 not enforced
UniqueViolationNever(led, v) == FALSE

\* the primary key of line 158: a second row for a version is refused
UniqueViolation(led, v) == v \in Versions(led)

\* another open transaction holds an uncommitted row for version v
InsertBlocked(p, v) ==
    \E q \in Instances \ {p} : tx[q].open /\ v \in Versions(tx[q].rows)

\* lines 156-166 creating the table afresh
TableAfterEnsureFresh(led) == <<>>

\* lines 156-166: CREATE TABLE IF NOT EXISTS leaves an existing table alone
TableAfterEnsure(led) == led

\* lines 218-219 with the statements run outside the transaction
EffectsAfterRollbackKept(eff, v, stmts) == AddEffects(eff, v, stmts)

\* lines 218, 239: a rollback discards the statements of the scope
EffectsAfterRollback(eff, v, stmts) == eff

\* line 139: the context handed to every database operation is
\* context.Background()
ctx == "background"

\* a background context has no cancel function and no deadline: its Done
\* channel never closes
CtxCanBeCancelled(c) == c # "background"

\* lines 216-220, 238-241 on a cancelled context: the operation in flight
\* returns the context's error, the scope is rolled back and main panics
CancelScope(p) ==
    /\ tx[p].open
    /\ CtxCanBeCancelled(ctx)
    /\ effects' = EffectsAfterRollback(effects, Cur(p).Version, tx[p].effects)
    /\ Exit(p, "cancelled")
    /\ UNCHANGED <<committed, dir, fleet, schemaExists, tableExists, ledger,
                   loaderVars>>

\* an instance of the tool is started, any number of times; instances are
\* interchangeable, so the second is only used once the first has been
Start(p) ==
    /\ p \in fleet
    /\ pc[p] \in {"idle", "done", "fatal"}
    /\ \A q \in Instances : q < p => pc[q] # "idle"
    /\ pc' = [pc EXCEPT ![p] = "schema"]
    /\ committed' = [committed EXCEPT ![p] = <<>>]
    /\ err' = [err EXCEPT ![p] = "none"]
    /\ UNCHANGED <<dir, fleet, dbVars, applied, local, idx, tx, readVersions,
                   loaderVars>>

\* lines 150-153
EnsureSchema(p) ==
    /\ pc[p] = "schema"
    /\ schemaExists' = TRUE
    /\ pc' = [pc EXCEPT ![p] = "table"]
    /\ UNCHANGED <<committed, err, dir, fleet, tableExists, ledger, effects,
                   applied, local, idx, tx, readVersions, loaderVars>>

EnsureSchemaFail(p) ==
    /\ pc[p] = "schema"
    /\ Exit(p, "schema")
    /\ UNCHANGED <<committed, dir, fleet, dbVars, loaderVars>>

\* lines 156-169
EnsureTable(p) ==
    /\ pc[p] = "table"
    /\ schemaExists
    /\ tableExists' = TRUE
    /\ ledger' = TableAfterEnsure(ledger)
    /\ pc' = [pc EXCEPT ![p] = "query"]
    /\ UNCHANGED <<committed, err, dir, fleet, schemaExists, effects, applied, local, idx, tx,
                   readVersions, loaderVars>>

EnsureTableFail(p) ==
    /\ pc[p] = "table"
    /\ Exit(p, "table")
    /\ UNCHANGED <<committed, dir, fleet, dbVars, loaderVars>>

\* lines 172-187, every row read
QueryApplied(p) ==
    /\ pc[p] = "query"
    /\ tableExists
    /\ applied' = [applied EXCEPT ![p] = AppliedMap(ledger)]
    /\ readVersions' = [readVersions EXCEPT ![p] = Versions(ledger)]
    /\ pc' = [pc EXCEPT ![p] = "load"]
    /\ UNCHANGED <<committed, err, dir, fleet, dbVars, local, idx, tx, loaderVars>>

\* lines 172-176, 183-185: the query or a Scan returns an error
QueryFail(p) ==
    /\ pc[p] = "query"
    /\ Exit(p, "query")
    /\ UNCHANGED <<committed, dir, fleet, dbVars, loaderVars>>

\* lines 180-187: rows.Next() returns false on an error after k rows and
\* rows.Err() is never looked at, so the run goes on with the rows read so far
QueryTruncated(p) ==
    /\ pc[p] = "query"
    /\ tableExists
    /\ \E k \in 0..(Len(ledger) - 1) :
         applied' = [applied EXCEPT ![p] = AppliedMap(SubSeq(ledger, 1, k))]
    /\ readVersions' = [readVersions EXCEPT ![p] = Versions(ledger)]
    /\ pc' = [pc EXCEPT ![p] = "load"]
    /\ UNCHANGED <<committed, err, dir, fleet, dbVars, local, idx, tx, loaderVars>>

\* lines 190-195 with the loader passing over a file name it cannot cut
\* instead of returning the error of lines 61-63
LoadLocalSkipMalformed(p) ==
    /\ pc[p] = "load"
    /\ \E ms \in LoadResults({f \in dir : ~Malformed(f.name)}) :
         local' = [local EXCEPT ![p] = ms]
    /\ idx' = [idx EXCEPT ![p] = 1]
    /\ pc' = [pc EXCEPT ![p] = "loop"]
    /\ UNCHANGED <<committed, err, dir, fleet, dbVars, applied, tx, readVersions, loaderVars>>

\* lines 190-195
LoadLocal(p) ==
    /\ pc[p] = "load"
    /\ ~LoadFails(dir)
    /\ \E ms \in LoadResults(dir) : local' = [local EXCEPT ![p] = ms]
    /\ idx' = [idx EXCEPT ![p] = 1]
    /\ pc' = [pc EXCEPT ![p] = "loop"]
    /\ UNCHANGED <<committed, err, dir, fleet, dbVars, applied, tx, readVersions, loaderVars>>

\* lines 40-43, 53-56, 61-63, 191-193: the directory or a file cannot be
\* read, or a file name has no separator
LoadLocalFail(p) ==
    /\ pc[p] = "load"
    /\ \E kind \in {"malformed", "io"} :
         /\ kind = "malformed" => LoadFails(dir)
         /\ Exit(p, kind)
    /\ UNCHANGED <<committed, dir, fleet, dbVars, loaderVars>>

\* lines 199-203
Skip(p) ==
    /\ pc[p] = "loop"
    /\ idx[p] <= Len(local[p])
    /\ IsApplied(Cur(p), applied[p])
    /\ idx' = [idx EXCEPT ![p] = @ + 1]
    /\ UNCHANGED <<committed, err, dir, fleet, dbVars, pc, applied, local, tx, readVersions,
                   loaderVars>>

\* lines 205-212
BeginTx(p) ==
    /\ pc[p] = "loop"
    /\ idx[p] <= Len(local[p])
    /\ ~IsApplied(Cur(p), applied[p])
    /\ tx' = [tx EXCEPT ![p] = [open |-> TRUE, effects |-> <<>>, rows |-> <<>>]]
    /\ pc' = [pc EXCEPT ![p] = "stmts"]
    /\ UNCHANGED <<committed, err, dir, fleet, dbVars, applied, local, idx, readVersions,
                   loaderVars>>

\* lines 207-210 going on to the next migration instead of panicking
BeginTxFailContinue(p) ==
    /\ pc[p] = "loop"
    /\ idx[p] <= Len(local[p])
    /\ ~IsApplied(Cur(p), applied[p])
    /\ idx' = [idx EXCEPT ![p] = @ + 1]
    /\ UNCHANGED <<committed, err, dir, fleet, dbVars, pc, applied, local, tx,
                   readVersions, loaderVars>>

\* lines 207-210
BeginTxFail(p) ==
    /\ pc[p] = "loop"
    /\ idx[p] <= Len(local[p])
    /\ ~IsApplied(Cur(p), applied[p])
    /\ Exit(p, "begin")
    /\ UNCHANGED <<committed, dir, fleet, dbVars, loaderVars>>

\* lines 215-221 with every statement succeeding
ExecStatements(p) ==
    /\ pc[p] = "stmts"
    /\ tx' = [tx EXCEPT ![p].effects = Cur(p).Statements]
    /\ pc' = [pc EXCEPT ![p] = "insert"]
    /\ UNCHANGED <<committed, err, dir, fleet, dbVars, applied, local, idx, readVersions,
                   loaderVars>>

\* lines 216-220 going on to the next migration instead of panicking
ExecStatementsFailContinue(p) ==
    /\ pc[p] = "stmts"
    /\ \E n \in 1..Len(Cur(p).Statements) :
         effects' = EffectsAfterRollback(effects, Cur(p).Version,
                                         SubSeq(Cur(p).Statements, 1, n - 1))
    /\ tx' = [tx EXCEPT ![p] = NoTx]
    /\ idx' = [idx EXCEPT ![p] = @ + 1]
    /\ pc' = [pc EXCEPT ![p] = "loop"]
    /\ UNCHANGED <<committed, err, dir, fleet, schemaExists, tableExists, ledger, applied, local,
                   readVersions, loaderVars>>

\* lines 215-220, statement n fails after n-1 have succeeded: rollback, panic
ExecStatementsFail(p) ==
    /\ pc[p] = "stmts"
    /\ \E n \in 1..Len(Cur(p).Statements) :
         effects' = EffectsAfterRollback(effects, Cur(p).Version,
                                         SubSeq(Cur(p).Statements, 1, n - 1))
    /\ Exit(p, "stmt")
    /\ UNCHANGED <<committed, dir, fleet, schemaExists, tableExists, ledger,
                   loaderVars>>

\* lines 224-237, the insert succeeds; it waits while another open
\* transaction holds a row for the same version
InsertLedger(p) ==
    /\ pc[p] = "insert"
    /\ ~InsertBlocked(p, Cur(p).Version)
    /\ ~UniqueViolation(ledger, Cur(p).Version)
    /\ tx' = [tx EXCEPT ![p].rows = Append(@, LedgerRow(Cur(p)))]
    /\ pc' = [pc EXCEPT ![p] = "commit"]
    /\ UNCHANGED <<committed, err, dir, fleet, dbVars, applied, local, idx, readVersions,
                   loaderVars>>

\* lines 238-241, the insert fails on the primary key or otherwise:
\* rollback, panic
InsertLedgerFail(p) ==
    /\ pc[p] = "insert"
    /\ \E kind \in {"unique", "insert"} :
         /\ kind = "unique" =>
              /\ ~InsertBlocked(p, Cur(p).Version)
              /\ UniqueViolation(ledger, Cur(p).Version)
         /\ Exit(p, kind)
    /\ effects' = EffectsAfterRollback(effects, Cur(p).Version, tx[p].effects)
    /\ UNCHANGED <<committed, dir, fleet, schemaExists, tableExists, ledger,
                   loaderVars>>

\* lines 243-250 with the committed version entered into the applied map
CommitUpdatesApplied(p) ==
    /\ pc[p] = "commit"
    /\ ledger' = ledger \o tx[p].rows
    /\ effects' = AddEffects(effects, Cur(p).Version, tx[p].effects)
    /\ tx' = [tx EXCEPT ![p] = NoTx]
    /\ idx' = [idx EXCEPT ![p] = @ + 1]
    /\ pc' = [pc EXCEPT ![p] = "loop"]
    /\ committed' = [committed EXCEPT ![p] = Append(@, Cur(p).Version)]
    /\ applied' = [applied EXCEPT ![p] =
                      [v \in DOMAIN @ \cup {Cur(p).Version} |->
                          IF v = Cur(p).Version THEN Cur(p).Hash ELSE @[v]]]
    /\ UNCHANGED <<err, dir, fleet, schemaExists, tableExists, local,
                   readVersions, loaderVars>>

\* lines 243-250
Commit(p) ==
    /\ pc[p] = "commit"
    /\ ledger' = ledger \o tx[p].rows
    /\ effects' = AddEffects(effects, Cur(p).Version, tx[p].effects)
    /\ tx' = [tx EXCEPT ![p] = NoTx]
    /\ idx' = [idx EXCEPT ![p] = @ + 1]
    /\ pc' = [pc EXCEPT ![p] = "loop"]
    /\ committed' = [committed EXCEPT ![p] = Append(@, Cur(p).Version)]
    /\ UNCHANGED <<err, dir, fleet, schemaExists, tableExists, applied, local,
                   readVersions, loaderVars>>

\* lines 243-245 going on to the next migration when Commit returns the
\* error of an aborted transaction
CommitFailContinue(p) ==
    /\ pc[p] = "commit"
    /\ tx' = [tx EXCEPT ![p] = NoTx]
    /\ idx' = [idx EXCEPT ![p] = @ + 1]
    /\ pc' = [pc EXCEPT ![p] = "loop"]
    /\ UNCHANGED <<committed, err, dir, fleet, dbVars, applied, local,
                   readVersions, loaderVars>>

\* lines 243-245: Commit returns an error.  Either the transaction was
\* aborted, or it became durable and only the acknowledgement was lost.
CommitFail(p) ==
    /\ pc[p] = "commit"
    /\ \/ UNCHANGED <<ledger, effects, committed>>
       \/ /\ ledger' = ledger \o tx[p].rows
          /\ effects' = AddEffects(effects, Cur(p).Version, tx[p].effects)
          /\ committed' = [committed EXCEPT ![p] = Append(@, Cur(p).Version)]
    /\ Exit(p, "commit")
    /\ UNCHANGED <<dir, fleet, schemaExists, tableExists, loaderVars>>

\* line 253
Finish(p) ==
    /\ pc[p] = "loop"
    /\ idx[p] > Len(local[p])
    /\ Exit(p, "none")
    /\ UNCHANGED <<committed, dir, fleet, dbVars, loaderVars>>

\* the operator rewrites a migration file that has been applied.  A run
\* sees the directory only in loadLocalMigrations, so only an edit made
\* right before a load matters.
EditFile ==
    /\ \E p \in Instances : pc[p] = "load"
    /\ \E f \in Candidates(dir) :
         /\ ~Malformed(f.name)
         /\ ParseName(f.name).Version \in Versions(ledger)
         /\ f.content # Rewritten
         /\ dir' = (dir \ {f}) \cup {File(f.name, FALSE, Rewritten)}
    /\ UNCHANGED <<fleet, dbVars, procVars, loaderVars>>

Next ==
    \/ \E p \in Instances :
         \/ Start(p)
         \/ EnsureSchema(p)
         \/ EnsureSchemaFail(p)
         \/ EnsureTable(p)
         \/ EnsureTableFail(p)
         \/ QueryApplied(p)
         \/ QueryFail(p)
         \/ QueryTruncated(p)
         \/ LoadLocal(p)
         \/ LoadLocalFail(p)
         \/ Skip(p)
         \/ BeginTx(p)
         \/ BeginTxFail(p)
         \/ ExecStatements(p)
         \/ ExecStatementsFail(p)
         \/ InsertLedger(p)
         \/ InsertLedgerFail(p)
         \/ Commit(p)
         \/ CommitFail(p)
         \/ Finish(p)
    \/ EditFile

\* the steps of main once instance p has been started: every database
\* call and every file read of main returns, with a result or an error
Advance(p) ==
    \/ EnsureSchemaFail(p)
    \/ EnsureTableFail(p)
    \/ QueryFail(p)
    \/ LoadLocalFail(p)
    \/ BeginTxFail(p)
    \/ ExecStatementsFail(p)
    \/ InsertLedgerFail(p)
    \/ CommitFail(p)
    \/ EnsureSchema(p)
    \/ EnsureTable(p)
    \/ QueryApplied(p)
    \/ QueryTruncated(p)
    \/ LoadLocal(p)
    \/ Skip(p)
    \/ BeginTx(p)
    \/ ExecStatements(p)
    \/ InsertLedger(p)
    \/ Commit(p)
    \/ Finish(p)

Spec == Init /\ [][Next]_vars

SpecConcurrent == InitConcurrent /\ [][Next]_vars

\* two instances whose started runs keep taking steps
SpecLive ==
    /\ InitLive
    /\ [][Next]_vars
    /\ \A p \in Instances : WF_vars(Advance(p))

NextLoader == LoadFile \/ ReloadJoined

SpecName == InitName /\ [][NextLoader]_vars

SpecSplit == InitSplit /\ [][NextLoader]_vars

NextArray == StoreArray

SpecArray == InitArray /\ [][NextArray]_vars

----------------------------------------------------------------------------
(* Claims *)

\* the rows of the ledger for version v
RowsOf(led, v) == SelectSeq(led, LAMBDA r : r.version = v)

\* every version the database knows of
KnownVersions == Versions(ledger) \cup DOMAIN effects

\* p has a scope open on the migration at its loop index
InScope(p) == tx[p].open

\* sequence s starts with sequence t
IsPrefix(t, s) == Len(t) <= Len(s) /\ SubSeq(s, 1, Len(t)) = t

\* C1: in every reachable state and for every version, the durable effects
\* of the version's statements are exactly the statements of its ledger row
\* when it has one, and there are none when it has no ledger row: a
\* migration is durable as a whole, with its row, or not at all.
C1_Atomic ==
    \A v \in KnownVersions :
        IF v \in Versions(ledger)
        THEN \A i \in DOMAIN ledger :
                ledger[i].version = v => EffectsOf(effects, v) = ledger[i].statements
        ELSE EffectsOf(effects, v) = <<>>

\* a migration of two statements is durable with its row, after a run that
\* was rolled back and ended with a panic during a scope
C1_Witness ==
    /\ \E i \in DOMAIN ledger :
         /\ ledger[i].created_by = CreatedBy
         /\ Len(ledger[i].statements) = 2
         /\ EffectsOf(effects, ledger[i].version) = ledger[i].statements
    /\ \E p \in Instances : err[p] \in {"stmt", "unique", "insert", "commit"}

\* C2: no statement is executed, and no ledger row is written, in a scope
\* for a local migration whose version was in the ledger when the run read
\* it; and a run that read a ledger holding every local version opens no
\* scope and makes nothing durable, so that it ends with the completion line.
C2_RerunIdempotent ==
    \A p \in Instances :
        /\ InScope(p) /\ Cur(p).Version \in readVersions[p] =>
              tx[p].effects = <<>> /\ tx[p].rows = <<>>
        /\ ( /\ pc[p] \in {"loop", "stmts", "insert", "commit"}
             /\ \A j \in DOMAIN local[p] : local[p][j].Version \in readVersions[p] )
           => pc[p] = "loop" /\ committed[p] = <<>>

\* C3: whenever a scope is open on a migration, no migration before it in
\* the run has a greater version (the attempts ascend in byte-wise lexical
\* order), and every pending migration before it in the run has its row in
\* the ledger (its scope was committed before this one was begun).
C3_Ordered ==
    \A p \in Instances :
        InScope(p) =>
            \A j \in 1..(idx[p] - 1) :
                /\ ~StrLess(Cur(p).Version, local[p][j].Version)
                /\ ~IsApplied(local[p][j], applied[p]) =>
                      /\ local[p][j].Version \in Versions(ledger)
                      /\ local[p][j].Version \in Range(committed[p])

\* a scope is open on version "9" after the pending version "10" was
\* committed in the same run: lexical order, not numeric order
C3_Witness ==
    \E p \in Instances :
        /\ InScope(p)
        /\ idx[p] >= 2
        /\ StrLessNumeric(Cur(p).Version, local[p][idx[p] - 1].Version)
        /\ StrLess(local[p][idx[p] - 1].Version, Cur(p).Version)
        /\ local[p][idx[p] - 1].Version \in Range(committed[p])


\* the step closes the scope of p
ClosesScope(p) == tx[p].open /\ ~tx'[p].open

\* C4: a step on which a statement, the ledger insert or the commit of the
\* scope fails ends the run with a fatal error; a scope never closes with
\* the run going on unless its row was committed; a run ended by a fatal
\* error opens no scope and moves its loop no further; and no step, failing
\* ones included, removes or changes a ledger row or an effect of a
\* migration committed earlier.
C4_FailFast ==
    [][\A p \in Instances :
          /\ ClosesScope(p) =>
                \/ /\ pc'[p] = "fatal"
                   /\ err'[p] \in {"stmt", "unique", "insert", "commit"}
                \/ /\ pc'[p] = "loop"
                   /\ idx'[p] = idx[p] + 1
                   /\ ledger' = Append(ledger, LedgerRow(Cur(p)))
          /\ pc[p] = "fatal" => pc'[p] \in {"fatal", "schema"} /\ ~tx'[p].open
          /\ ClosesScope(p) /\ pc'[p] = "fatal" =>
                /\ IsPrefix(ledger, ledger')
                /\ \A v \in Range(committed[p]) :
                      /\ v \in Versions(ledger')
                      /\ EffectsOf(effects', v) = EffectsOf(effects, v)]_vars

\* a run has ended with a fatal error in the scope of its second pending
\* migration, the first one committed by it is durable, and a later local
\* migration is still without a ledger row
C4_Witness ==
    \E p \in Instances :
        /\ pc[p] = "fatal"
        /\ err[p] \in {"stmt", "unique", "insert", "commit"}
        /\ Len(committed[p]) = 1
        /\ committed[p][1] \in Versions(ledger)
        /\ Cardinality({ParseName(f.name).Version : f \in Candidates(dir)}
                       \ Versions(ledger)) >= 2

\* C5: the ledger grows only by a commit that appends exactly one row, the
\* row of the scope that commits; that row carries the version and the name
\* of the migration, the hash of its raw text, its statements in file order
\* (as many as were executed in the scope), the origin marker of the tool
\* and a null idempotency key.
C5_LedgerRow ==
    [][ledger' # ledger =>
          \E p \in Instances :
              /\ pc[p] = "commit"
              /\ InScope(p)
              /\ Len(ledger') = Len(ledger) + 1
              /\ LET r == ledger'[Len(ledger')]
                     m == Cur(p)
                 IN /\ tx[p].rows = <<r>>
                    /\ r.version = m.Version
                    /\ r.name = m.Name
                    /\ r.hash = computeHash(m.Raw)
                    /\ r.statements = Statements(m.Raw)
                    /\ r.statements = tx[p].effects
                    /\ Len(r.statements) = Len(tx[p].effects)
                    /\ r.created_by = CreatedBy
                    /\ r.idempotency_key = Null]_vars

\* the row of a migration of two statements is in the ledger, with the hash
\* of the raw text, which is not the text of the statements rejoined
C5_Witness ==
    \E i \in DOMAIN ledger :
        /\ ledger[i].created_by = CreatedBy
        /\ Len(ledger[i].statements) = 2
        /\ \E f \in dir :
              /\ ledger[i].hash = computeHash(f.content)
              /\ ledger[i].statements = Statements(f.content)
              /\ ledger[i].hash # computeHash(Join(ledger[i].statements, Marker))


\* the file name check has parsed a name of the form {version}_{name}.sql
ParsedName == out.done /\ ~out.failed /\ Len(out.ms) = 1

\* C6 as stated: the loader gives the version and the name of the file name
\* {version}_{name}.sql, the name without the .sql extension.
C6_NameWithoutExtension ==
    ParsedName =>
        /\ out.ms[1].Version \o Separator \o out.ms[1].Name \o SqlExt = fname
        /\ IndexOf(out.ms[1].Version, Separator) = 0

\* C6 amended: the version is the part of the file name before the first
\* underscore and has no underscore; the name is everything after that
\* underscore, underscores and the .sql extension included.
C6_NameKeepsExtension ==
    /\ out.done => (out.failed <=> IndexOf(fname, Separator) = 0)
    /\ ParsedName =>
        /\ out.ms[1].Version \o Separator \o out.ms[1].Name = fname
        /\ IndexOf(out.ms[1].Version, Separator) = 0
        /\ HasSuffix(out.ms[1].Name, SqlExt)

\* the name 1_a_a.sql has been parsed: its name part holds an underscore
C6_Witness ==
    /\ ParsedName
    /\ fname = <<"1", "_", "a", "_", "a">> \o SqlExt
    /\ out.ms[1].Version = <<"1">>
    /\ out.ms[1].Name = <<"a", "_", "a">> \o SqlExt

\* C7: at the head of its loop a run either skips the migration or opens a
\* scope on it (or fails to open one), and which of the two depends only on
\* whether the version is a key of the applied set it read: a migration
\* whose version is a key is skipped whatever its hash, the loop moving on
\* by one with no scope, no ledger change, no effect and no error; a
\* migration whose version is not a key is never skipped.
C7_PresenceOnly ==
    [][\A p \in Instances :
          ( /\ pc[p] = "loop"
            /\ idx[p] <= Len(local[p])
            /\ <<pc[p], idx[p], tx[p]>>' # <<pc[p], idx[p], tx[p]>> )
          => IF Cur(p).Version \in DOMAIN applied[p]
             THEN /\ pc'[p] = "loop"
                  /\ idx'[p] = idx[p] + 1
                  /\ ~tx'[p].open
                  /\ local'[p] = local[p]
                  /\ ledger' = ledger
                  /\ effects' = effects
             ELSE \/ tx'[p].open /\ idx'[p] = idx[p] /\ local'[p] = local[p]
                  \/ pc'[p] = "fatal"]_vars

\* a run has skipped a migration whose hash differs from the hash stored
\* for its version, and has gone on
C7_Witness ==
    \E p \in Instances :
        /\ pc[p] = "loop"
        /\ idx[p] >= 2
        /\ LET m == local[p][idx[p] - 1]
           IN /\ m.Version \in DOMAIN applied[p]
              /\ applied[p][m.Version] # m.Hash
              /\ \E i \in DOMAIN ledger :
                    ledger[i].version = m.Version /\ ledger[i].hash # m.Hash

\* C8: the ledger never holds two rows for a version and the effects of a
\* version are never durable twice; no version is committed by the runs of
\* both instances; a row enters a scope only when no committed row and no
\* other open scope holds its version; and an instance that reaches the
\* ledger insert for a version another run has committed can only fail
\* there: fatal error, scope rolled back, database unchanged.
C8_OneWinner ==
    [][/\ \A v \in Versions(ledger') :
             /\ Len(RowsOf(ledger', v)) = 1
             /\ EffectsOf(effects', v) = RowsOf(ledger', v)[1].statements
       /\ \A p, q \in Instances :
             p # q => Range(committed'[p]) \cap Range(committed'[q]) = {}
       /\ \A p \in Instances :
             /\ tx'[p].rows # <<>> /\ tx[p].rows = <<>> =>
                   /\ Cur(p).Version \notin Versions(ledger)
                   /\ \A q \in Instances \ {p} :
                         Cur(p).Version \notin Versions(tx[q].rows)
             /\ ( /\ pc[p] = "insert"
                  /\ Cur(p).Version \in Versions(ledger)
                  /\ pc'[p] # "insert" )
                => /\ pc'[p] = "fatal"
                   /\ err'[p] \in {"unique", "insert"}
                   /\ ~tx'[p].open
                   /\ ledger' = ledger
                   /\ effects' = effects]_vars

\* both instances found the version pending; one has committed it and the
\* other, its statements executed in its scope, is at the ledger insert
C8_Witness ==
    \E p, q \in Instances :
        /\ p # q
        /\ pc[q] = "insert"
        /\ tx[q].effects # <<>>
        /\ Cur(q).Version \notin readVersions[q]
        /\ Cur(q).Version \in Range(committed[p])
        /\ Cur(q).Version \in Versions(ledger)

\* C9: every step leaves the rows of the ledger in place and unchanged; the
\* ledger changes only by one row appended at the commit of a scope, for
\* the version of that scope.
C9_AppendOnly ==
    [][/\ IsPrefix(ledger, ledger')
       /\ Len(ledger') <= Len(ledger) + 1
       /\ ledger' # ledger =>
             \E p \in Instances :
                 /\ ClosesScope(p)
                 /\ Versions(ledger') = Versions(ledger) \cup {Cur(p).Version}
                 /\ Cur(p).Version \notin DOMAIN applied[p]]_vars

\* a run has ended with the completion line after appending a row behind
\* the row of a version that has no local file, which is unchanged
C9_Witness ==
    /\ Len(ledger) >= 2
    /\ ledger[1] = ForeignRow
    /\ ForeignRow.version \notin {ParseName(f.name).Version : f \in Candidates(dir)}
    /\ ledger[2].created_by = CreatedBy
    /\ \E p \in Instances : pc[p] = "done" /\ committed[p] # <<>>

\* the lines of a text
TextLines(s) == Split(s, <<"\n">>)

\* the chunks of a sequence of lines cut at the lines that are the marker
RECURSIVE LineChunks(_, _)
LineChunks(ls, cur) ==
    IF ls = <<>> THEN <<cur>>
    ELSE IF TrimSpace(Head(ls)) = Marker
         THEN <<cur>> \o LineChunks(Tail(ls), <<>>)
         ELSE LineChunks(Tail(ls),
                         IF cur = <<>> THEN Head(ls) \o <<"\n">>
                         ELSE cur \o Head(ls) \o <<"\n">>)

\* splitting as C10 states it: at the lines whose trimmed content is the marker
LineStatements(content) ==
    LET chunks == LineChunks(TextLines(content), <<>>)
        trimmed == [i \in 1..Len(chunks) |-> TrimSpace(chunks[i])]
    IN SelectSeq(trimmed, LAMBDA stmt : stmt # <<>>)

\* the split check has split a file
SplitDone == out.done /\ ~out.failed /\ Len(out.ms) = 1

\* C10 as stated: the statements of a file are the trimmed, non-empty
\* chunks between the lines whose trimmed content is exactly the marker;
\* marker text inside a longer line does not split.
C10_SplitAtMarkerLines ==
    SplitDone => out.ms[1].Statements = LineStatements(raw)

\* C11: for every list of statements, also with quotes, backslashes,
\* commas and braces in them, what the database reads back from the output
\* of formatPostgresArray is the list itself; the empty list is written as
\* the empty-array literal.
C11_ArrayRoundTrip ==
    out.done =>
        /\ out.stored = list
        /\ list = <<>> => out.lit = <<"{", "}">>

\* a list of two statements holding a quote, a backslash and braces
\* has been stored, and its literal differs from the plain joining
C11_Witness ==
    /\ out.done
    /\ list = << <<Backslash, Quote>>, <<"{", "}">> >>
    /\ out.stored = list
    /\ out.lit = <<"{", Quote, Backslash, Backslash, Backslash, Quote, Quote,
                   ",", Quote, "{", "}", Quote, "}">>

\* C12: a file name with no separator, or one whose cut at the first
\* separator leaves an empty version or an empty name, makes the loader
\* fail; no Migration with an empty version is ever produced.
C12_MalformedRejected ==
    out.done =>
        LET i == IndexOf(fname, Separator)
        IN /\ (i = 0 \/ i = 1 \/ i = Len(fname)) => out.failed
           /\ ~out.failed =>
                \A k \in DOMAIN out.ms : out.ms[k].Version # <<>>

\* the directory holds a .sql file whose name has no separator
HasMalformed == \E f \in Candidates(dir) : IndexOf(f.name, Separator) = 0

\* the rows and effects the database held before the first run
Preexisting ==
    /\ \A i \in DOMAIN ledger : ledger[i] = ForeignRow
    /\ DOMAIN effects \subseteq {ForeignRow.version}

C14_LedgerReadComplete ==
    \A p \in Instances :
        pc[p] \in {"load", "loop", "stmts", "insert", "commit"} =>
            readVersions[p] \subseteq DOMAIN applied[p]

\* C15: whenever a run has a migration's scope open, the run can be
\* cancelled: the cancellation reaches the database operation in flight,
\* the scope is rolled back and the run stops with neither a ledger row
\* nor a statement effect of the interrupted migration.
C15_ScopeCanBeCancelled ==
    \A p \in Instances : tx[p].open => ENABLED CancelScope(p)

\* what a file without marker is split into
NoMarkerStatements(m) ==
    IndexOf(m.Raw, Marker) = 0 =>
        m.Statements = IF TrimSpace(m.Raw) = <<>> THEN <<>>
                       ELSE <<TrimSpace(m.Raw)>>

\* the migration of an open scope has no statements
EmptyScope(p) == tx[p].open /\ Cur(p).Statements = <<>>

C16_State ==
    \A p \in Instances :
        /\ \A i \in DOMAIN local[p] : NoMarkerStatements(local[p][i])
        /\ EmptyScope(p) => tx[p].effects = <<>>

C16_Step ==
    \A p \in Instances :
        EmptyScope(p) =>
            /\ err'[p] # "stmt"
            /\ pc[p] = "stmts" => pc'[p] \in {"stmts", "insert"}
            /\ \A v \in DOMAIN effects' :
                  EffectsOf(effects', v) = EffectsOf(effects, v)
            /\ pc[p] = "commit" /\ pc'[p] = "loop" =>
                  /\ Len(ledger') = Len(ledger) + 1
                  /\ ledger'[Len(ledger')].version = Cur(p).Version
                  /\ ledger'[Len(ledger')].statements = <<>>

\* C16: a file without marker is split into the one statement that is its
\* trimmed content, or into no statement when that is empty; a scope on a
\* migration without statements runs no statement, cannot fail on a
\* statement, changes no statement effect and, when it commits, ledgers the
\* version with an empty statement list.
C16_ZeroStatements == [](C16_State) /\ [][C16_Step]_vars

\* a run has ledgered a migration without statements and reached its
\* completion line
C16_Witness ==
    /\ pc[1] = "done"
    /\ \E i \in DOMAIN ledger :
          /\ ledger[i].statements = <<>>
          /\ ledger[i].version \in Range(committed[1])
          /\ EffectsOf(effects, ledger[i].version) = <<>>

\* the joined statements of a file have been loaded again
Reloaded == out.done /\ "again" \in DOMAIN out

\* C17: for every file content, loading the file made of its statements
\* joined with the marker gives the same statements again, in number,
\* order and text.
C17_SplitIdempotent ==
    Reloaded => out.again[1].Statements = out.ms[1].Statements

\* a file of two statements with white space around them has been split,
\* joined and split again, and the joined text differs from the file
C17_Witness ==
    /\ Reloaded
    /\ raw = <<" ", "a", "\n", "-", "b", "b">>
    /\ out.ms[1].Statements = << <<"a">>, <<"b">> >>
    /\ out.joined = <<"a", "-", "b", "b">>
    /\ out.again[1].Statements = << <<"a">>, <<"b">> >>

\* the versions of the migration files of directory d
LocalVersions(d) == {ParseName(f.name).Version : f \in Candidates(d)}

\* no two migration files of directory d have the same version
UniqueVersions(d) ==
    \A f, g \in Candidates(d) :
        ParseName(f.name).Version = ParseName(g.name).Version => f.name = g.name

\* C18: with unique local versions and a ledger that was empty at first,
\* in every state reached by any number of runs of one or two instances,
\* the ledgered versions are local versions, and a ledgered version has
\* every local version that sorts before it in the ledger as well.
C18_LedgerIsPrefix ==
    UniqueVersions(dir) =>
        /\ Versions(ledger) \subseteq LocalVersions(dir)
        /\ \A v, w \in LocalVersions(dir) :
              StrLess(v, w) /\ w \in Versions(ledger) => v \in Versions(ledger)

\* two instances have run on a directory of two versions; one has ended
\* with a panic and the ledger holds the first version only
C18_Witness ==
    /\ UniqueVersions(dir)
    /\ Cardinality(LocalVersions(dir)) = 2
    /\ pc[1] = "fatal"
    /\ pc[2] \notin {"idle", "done", "fatal"}
    /\ Cardinality(Versions(ledger)) = 1

\* instance p is in a run
Running(p) == pc[p] \notin {"idle", "done", "fatal"}

\* a step that takes a run to its completion line has every migration the
\* run discovered in the ledger
C19_Step ==
    \A p \in Instances :
        pc[p] = "loop" /\ pc'[p] = "done" =>
            \A i \in DOMAIN local[p] :
                local[p][i].Version \in Versions(ledger')

\* C19: every run ends, at the completion line or with a panic; a run ends
\* at the completion line only with a ledger row for the version of every
\* migration it discovered, and a run that has panicked never counts as
\* complete.
C19_Completion ==
    /\ [][C19_Step]_vars
    /\ [](\A p \in Instances : pc[p] = "done" <=> (~Running(p) /\ pc[p] # "idle" /\ err[p] = "none"))
    /\ \A p \in Instances : Running(p) ~> ~Running(p)

\* one run has reached the completion line after committing a migration;
\* the other, which waited on the insert of the same version, has ended
\* with a panic
C19_Witness ==
    /\ pc[1] = "done"
    /\ committed[1] # <<>>
    /\ pc[2] = "fatal"
    /\ err[2] = "unique"
    /\ Versions(ledger) = Range(committed[1])

\* the loop of p is at a migration whose version p has committed in this run
AtSecondOfVersion(p) ==
    /\ pc[p] \in {"loop", "stmts", "insert", "commit"}
    /\ idx[p] <= Len(local[p])
    /\ Cur(p).Version \in Range(committed[p])

C20_State ==
    /\ \A v \in Versions(ledger) : Len(RowsOf(ledger, v)) = 1
    /\ \A p \in Instances : AtSecondOfVersion(p) => pc[p] # "commit"

C20_Step ==
    \A p \in Instances :
        /\ pc[p] \in {"loop", "stmts", "insert", "commit"} /\ pc'[p] \notin {"done", "fatal"}
              => applied'[p] = applied[p]
        /\ AtSecondOfVersion(p) =>
              /\ ledger' = ledger
              /\ effects' = effects
              /\ pc'[p] # "done"
              /\ pc'[p] # "fatal" => idx'[p] = idx[p]
              /\ pc[p] = "insert" /\ pc'[p] = "fatal" => err'[p] \in {"unique", "insert"}

\* C20: the applied map is not changed once a run has read it.  So a run
\* that has committed one of two files of the same version does not skip
\* the other: it opens a scope for it, the insert of its row cannot succeed,
\* the scope is rolled back and the run ends with a panic, never at the
\* completion line; the ledger keeps exactly one row for the version and
\* the durable effects stay those of the first file.
C20_DuplicateVersions == [](C20_State) /\ [][C20_Step]_vars

\* a directory of two files of one version: the run has committed one of
\* them and has ended on the primary key with the other
C20_Witness ==
    /\ ~LoadFails(dir)
    /\ Cardinality(Candidates(dir)) = 2
    /\ Cardinality(LocalVersions(dir)) = 1
    /\ pc[1] = "fatal"
    /\ err[1] = "unique"
    /\ Len(committed[1]) = 1
    /\ \A i \in DOMAIN ledger :
          ledger[i].version = committed[1][1] =>
              /\ Len(RowsOf(ledger, ledger[i].version)) = 1
              /\ EffectsOf(effects, ledger[i].version) = ledger[i].statements

====
